---- MODULE Spec2Model ----
(***************************************************************************)
(* Interview availability and booking engine of the HR dashboard:          *)
(*   modules/calendar_handler.py  CalendarHandler                          *)
(*   modules/database_handler.py  DatabaseHandler.log_interview            *)
(*   app.py                       schedule_form / booking_form             *)
(*                                                                         *)
(* Time is counted in minutes of Asia/Kolkata wall-clock time (no DST)     *)
(* since Monday 00:00 of week 0; the current instant also carries its      *)
(* seconds.                                                                *)
(***************************************************************************)
EXTENDS Integers, Sequences, FiniteSets, TLC

VARIABLES
    now,                  \* datetime.datetime.now(local_tz): [t |-> minutes, sec |-> seconds]
    service,              \* CalendarHandler.service: "ok", or "none" when build() raised
    calendar,             \* the external calendars: calendarId -> set of event items
    interviews,           \* rows of the interviews table
    next_event_id,        \* the id the calendar provider gives to the next inserted event
    schedule_interviewer, \* st.session_state['schedule_interviewer_<applicant>'] per session
    schedule_duration,    \* st.session_state['schedule_duration_<applicant>'] per session
    available_slots,      \* st.session_state['available_slots_<applicant>'] per session
    show_schedule,        \* st.session_state['show_schedule_<applicant>'] per session
    pc,                   \* position of each session's script run inside booking_form
    created_event,        \* the event returned to a session by create_calendar_event
    locals,               \* booking_form's interviewer_details, start_time and end_time
    last_query,           \* history: the call of find_available_slots that produced a
                          \* session's slot list
    last_attempt,         \* history: the slot of a session's Confirm & Book that just failed
    load_interviews_cache, \* st.cache_data of load_interviews, per applicant_id
    bookings,             \* history: per created event, the booking that created it
    queries               \* history: the number of availability queries made so far

vars == <<now, service, calendar, interviews, next_event_id, schedule_interviewer,
          schedule_duration, available_slots, show_schedule, pc, created_event,
          locals, load_interviews_cache, last_query, last_attempt, bookings, queries>>

-----------------------------------------------------------------------------
(* Bounds of the model *)

\* number of events the calendar provider creates in one behaviour of Spec
MaxEvents == 1
\* number of availability queries made in one behaviour of Spec
MaxQueries == 1
\* the same two numbers in SpecRace
RaceEvents == 2
RaceQueries == 2
\* booking_form's selectbox is operated on the first MaxPick offered slots
MaxPick == 2
\* number of entries on a calendar before the first booking
MaxBusy == 2
\* the same number in SpecPair
PairBusy == 1
\* number of rows written to the interviews table in one behaviour of SpecStore
MaxRows == 3
\* number of queries and of created events in one behaviour of SpecInvite
InviteQueries == 2
InviteEvents == 1
\* number of queries and of created events in one behaviour of SpecLate
LateQueries == 1
LateEvents == 1

-----------------------------------------------------------------------------
(* Program constants *)

WorkStartHour == 9
WorkEndHour == 18
Granularity == 15
days_to_check == 7
Durations == {30, 45, 60}

MinutesPerDay == 24 * 60
DaysPerWeek == 6 + 1

-----------------------------------------------------------------------------
(* datetime arithmetic *)

weekday(t) == (t \div MinutesPerDay) % DaysPerWeek      \* 0 = Monday .. 6 = Sunday
hour(t) == (t % MinutesPerDay) \div 60
minute(t) == t % 60
\* datetime.replace(hour=h, minute=m) on a value without seconds
replace_hm(t, h, m) == (t \div MinutesPerDay) * MinutesPerDay + h * 60 + m
\* a readable constructor: week w, weekday d, h:m
At(w, d, h, m) == ((w * DaysPerWeek + d) * 24 + h) * 60 + m

-----------------------------------------------------------------------------
(* The external calendar (Google Calendar API v3) *)

Interviewers == {1, 2}                       \* ids of the rows of interviewer_list
email_of(i) == IF i = 1 THEN "iv1@corp" ELSE "iv2@corp"
CalendarIds == {"primary"} \cup {email_of(i) : i \in Interviewers}

\* the 'start' / 'end' object of an event item: a dateTime, a date (all-day) or neither
DateTime(t) == [tag |-> "dateTime", v |-> t]
Date(day) == [tag |-> "date", v |-> day]
NoTime == [tag |-> "none", v |-> 0]

\* datetime.datetime.fromisoformat on the string of a 'dateTime' or of a 'date'
\* (a date parses to midnight of that day)
fromisoformat(str) == IF str.tag = "date" THEN str.v * MinutesPerDay ELSE str.v

\* events().list(calendarId, timeMin, timeMax, singleEvents=True, orderBy='startTime'):
\* the items whose end is after timeMin and whose start is before timeMax
events_list(calendarId, timeMin, timeMax) ==
    {e \in calendar[calendarId] :
        \/ e.start.tag = "none"
        \/ e.end.tag = "none"
        \/ (fromisoformat(e.end) > timeMin /\ fromisoformat(e.start) < timeMax)}

-----------------------------------------------------------------------------
(* CalendarHandler.find_available_slots *)

\* lines 27-37 without the clamp of line 32-33 (hour < 9)
first_potential_slot_start_no_clamp(n) ==
    LET p1 == IF hour(n.t) >= WorkEndHour
              THEN [t |-> replace_hm(n.t + MinutesPerDay, WorkStartHour, 0), sec |-> 0]
              ELSE n
        p3 == IF minute(p1.t) % Granularity # 0
              THEN [p1 EXCEPT !.t = @ + (Granularity - (minute(p1.t) % Granularity))]
              ELSE p1
    IN  p3.t

\* lines 27-37 with line 35-36 rounding the minute down to a multiple of 15
first_potential_slot_start_round_down(n) ==
    LET p1 == IF hour(n.t) >= WorkEndHour
              THEN [t |-> replace_hm(n.t + MinutesPerDay, WorkStartHour, 0), sec |-> 0]
              ELSE n
        p2 == IF hour(p1.t) < WorkStartHour
              THEN [t |-> replace_hm(p1.t, WorkStartHour, 0), sec |-> 0]
              ELSE p1
        p3 == IF minute(p2.t) % Granularity # 0
              THEN [p2 EXCEPT !.t = @ - (minute(p2.t) % Granularity)]
              ELSE p2
    IN  p3.t

\* lines 27-37: the first candidate boundary computed from now
first_potential_slot_start(n) ==
    LET p1 == IF hour(n.t) >= WorkEndHour
              THEN [t |-> replace_hm(n.t + MinutesPerDay, WorkStartHour, 0), sec |-> 0]
              ELSE n
        p2 == IF hour(p1.t) < WorkStartHour
              THEN [t |-> replace_hm(p1.t, WorkStartHour, 0), sec |-> 0]
              ELSE p1
        p3 == IF minute(p2.t) % Granularity # 0
              THEN [p2 EXCEPT !.t = @ + (Granularity - (minute(p2.t) % Granularity))]
              ELSE p2
    IN  p3.t          \* .replace(second=0, microsecond=0)

\* lines 57-68 parsing only the items with a 'dateTime' (line 66), all-day items
\* being skipped
busy_slots_of_timed_only(busy_slots_raw) ==
    {[start |-> fromisoformat(e.start), end |-> fromisoformat(e.end)] :
        e \in {x \in busy_slots_raw : x.start.tag = "dateTime" /\ x.end.tag = "dateTime"}}

\* lines 57-68: the busy periods parsed from the raw items
busy_slots_of(busy_slots_raw) ==
    {[start |-> fromisoformat(e.start), end |-> fromisoformat(e.end)] :
        e \in {x \in busy_slots_raw : x.start.tag # "none" /\ x.end.tag # "none"}}

\* lines 85-89 testing only whether the candidate's start lies in a busy period
is_free_start_only(potential_slot_start, potential_slot_end, busy_slots) ==
    ~ \E busy_period \in busy_slots :
        /\ potential_slot_start < busy_period.end
        /\ potential_slot_start >= busy_period.start

\* lines 85-89 with closed intervals (<= and >= for < and >)
is_free_closed(potential_slot_start, potential_slot_end, busy_slots) ==
    ~ \E busy_period \in busy_slots :
        /\ potential_slot_start <= busy_period.end
        /\ potential_slot_end >= busy_period.start

\* lines 85-89 testing only whether the candidate's end lies in a busy period
is_free_end_only(potential_slot_start, potential_slot_end, busy_slots) ==
    ~ \E busy_period \in busy_slots :
        /\ potential_slot_end > busy_period.start
        /\ potential_slot_end <= busy_period.end

\* lines 85-89: the overlap test of one candidate against the busy periods
is_free(potential_slot_start, potential_slot_end, busy_slots) ==
    ~ \E busy_period \in busy_slots :
        /\ potential_slot_start < busy_period.end
        /\ potential_slot_end > busy_period.start

\* line 73-75: the weekend skip
skip_weekend(t) ==
    replace_hm(t + (DaysPerWeek - weekday(t)) * MinutesPerDay, WorkStartHour, 0)

\* line 79-80: the end-of-day reset
next_day_start(t) == replace_hm(t + MinutesPerDay, WorkStartHour, 0)

\* lines 72-94 with line 92 inserting at the front of the list
loop_body_prepend(v, duration_minutes, busy_slots) ==
    LET potential_slot_start == v.potential_slot_start
        potential_slot_end == potential_slot_start + duration_minutes
    IN  IF weekday(potential_slot_start) >= 5
        THEN [v EXCEPT !.potential_slot_start = skip_weekend(potential_slot_start),
                       !.iterations = @ + 1]
        ELSE IF hour(potential_slot_start) >= WorkEndHour
        THEN [v EXCEPT !.potential_slot_start = next_day_start(potential_slot_start),
                       !.iterations = @ + 1]
        ELSE [v EXCEPT !.potential_slot_start = potential_slot_start + Granularity,
              !.available_slots =
                  IF is_free(potential_slot_start, potential_slot_end, busy_slots)
                  THEN <<potential_slot_start>> \o v.available_slots
                  ELSE v.available_slots,
              !.iterations = v.iterations + 1]

\* lines 72-94 with line 94 advancing by the duration
loop_body_step_duration(v, duration_minutes, busy_slots) ==
    LET potential_slot_start == v.potential_slot_start
        potential_slot_end == potential_slot_start + duration_minutes
    IN  IF weekday(potential_slot_start) >= 5
        THEN [v EXCEPT !.potential_slot_start = skip_weekend(potential_slot_start),
                       !.iterations = @ + 1]
        ELSE IF hour(potential_slot_start) >= WorkEndHour
        THEN [v EXCEPT !.potential_slot_start = next_day_start(potential_slot_start),
                       !.iterations = @ + 1]
        ELSE [v EXCEPT !.potential_slot_start = potential_slot_start + duration_minutes,
              !.available_slots =
                  IF is_free(potential_slot_start, potential_slot_end, busy_slots)
                  THEN Append(v.available_slots, potential_slot_start)
                  ELSE v.available_slots,
              !.iterations = v.iterations + 1]

\* lines 72-94 with the weekend skip falling through to the emit step (no
\* continue at line 76): the Monday it jumps to is tested and emitted at once
loop_body_jump_and_emit(v, duration_minutes, busy_slots) ==
    LET jumped == weekday(v.potential_slot_start) >= 5
        potential_slot_start == IF jumped THEN skip_weekend(v.potential_slot_start)
                                ELSE v.potential_slot_start
        potential_slot_end == potential_slot_start + duration_minutes
    IN  IF ~ jumped /\ hour(potential_slot_start) >= WorkEndHour
        THEN [v EXCEPT !.potential_slot_start = next_day_start(potential_slot_start),
                       !.iterations = @ + 1]
        ELSE [v EXCEPT !.potential_slot_start = potential_slot_start + Granularity,
              !.available_slots =
                  IF is_free(potential_slot_start, potential_slot_end, busy_slots)
                  THEN Append(v.available_slots, potential_slot_start)
                  ELSE v.available_slots,
              !.iterations = @ + 1]

\* lines 72-94 with every second iteration leaving potential_slot_start as it is
loop_body_stall(v, duration_minutes, busy_slots) ==
    LET potential_slot_start == v.potential_slot_start
        potential_slot_end == potential_slot_start + duration_minutes
    IN  IF v.iterations % 2 = 1
        THEN [v EXCEPT !.iterations = @ + 1]
        ELSE IF weekday(potential_slot_start) >= 5
        THEN [v EXCEPT !.potential_slot_start = skip_weekend(potential_slot_start),
                       !.iterations = @ + 1]
        ELSE IF hour(potential_slot_start) >= WorkEndHour
        THEN [v EXCEPT !.potential_slot_start = next_day_start(potential_slot_start),
                       !.iterations = @ + 1]
        ELSE [v EXCEPT !.potential_slot_start = potential_slot_start + Granularity,
              !.available_slots =
                  IF is_free(potential_slot_start, potential_slot_end, busy_slots)
                  THEN Append(v.available_slots, potential_slot_start)
                  ELSE v.available_slots,
              !.iterations = @ + 1]

\* lines 72-94 with line 91 also asking that the candidate ends by 18:00
loop_body_end_in_hours(v, duration_minutes, busy_slots) ==
    LET potential_slot_start == v.potential_slot_start
        potential_slot_end == potential_slot_start + duration_minutes
    IN  IF weekday(potential_slot_start) >= 5
        THEN [v EXCEPT !.potential_slot_start = skip_weekend(potential_slot_start),
                       !.iterations = @ + 1]
        ELSE IF hour(potential_slot_start) >= WorkEndHour
        THEN [v EXCEPT !.potential_slot_start = next_day_start(potential_slot_start),
                       !.iterations = @ + 1]
        ELSE [v EXCEPT !.potential_slot_start = potential_slot_start + Granularity,
              !.available_slots =
                  IF /\ is_free(potential_slot_start, potential_slot_end, busy_slots)
                     /\ potential_slot_end <= replace_hm(potential_slot_start, WorkEndHour, 0)
                  THEN Append(v.available_slots, potential_slot_start)
                  ELSE v.available_slots,
              !.iterations = @ + 1]

\* lines 72-94: one iteration of the scan loop on the loop's variables
loop_body(v, duration_minutes, busy_slots) ==
    LET potential_slot_start == v.potential_slot_start
        potential_slot_end == potential_slot_start + duration_minutes
        seen == v.iterations + 1
    IN  IF weekday(potential_slot_start) >= 5
        THEN [v EXCEPT !.potential_slot_start = skip_weekend(potential_slot_start),
                       !.iterations = seen]
        ELSE IF hour(potential_slot_start) >= WorkEndHour
        THEN [v EXCEPT !.potential_slot_start = next_day_start(potential_slot_start),
                       !.iterations = seen]
        ELSE [v EXCEPT !.potential_slot_start = potential_slot_start + Granularity,
              !.available_slots =
                  IF is_free(potential_slot_start, potential_slot_end, busy_slots)
                  THEN Append(v.available_slots, potential_slot_start)
                  ELSE v.available_slots,
              !.iterations = seen]

\* line 71: the loop condition followed by one iteration; advanced records
\* whether every iteration so far has moved potential_slot_start forward
iterate(v, time_max, duration_minutes, busy_slots) ==
    IF v.potential_slot_start < time_max
    THEN LET w == loop_body(v, duration_minutes, busy_slots)
         IN  [w EXCEPT !.advanced =
                  v.advanced /\ w.potential_slot_start > v.potential_slot_start]
    ELSE v

\* lines 70-94: while potential_slot_start < time_max: <loop body>.  The
\* recursion takes eight iterations of the loop per level, which keeps the
\* evaluation depth of a seven-day scan small; iterations counts the
\* iterations of the loop
RECURSIVE scan_loop(_, _, _, _)
scan_loop(v, time_max, duration_minutes, busy_slots) ==
    IF v.potential_slot_start < time_max
    THEN scan_loop(
           iterate(iterate(iterate(iterate(iterate(iterate(iterate(iterate(v,
             time_max, duration_minutes, busy_slots),
             time_max, duration_minutes, busy_slots),
             time_max, duration_minutes, busy_slots),
             time_max, duration_minutes, busy_slots),
             time_max, duration_minutes, busy_slots),
             time_max, duration_minutes, busy_slots),
             time_max, duration_minutes, busy_slots),
             time_max, duration_minutes, busy_slots),
           time_max, duration_minutes, busy_slots)
    ELSE v

NoQuery ==
    [called |-> FALSE, at |-> [t |-> 0, sec |-> 0], email |-> "", duration |-> 0,
     unavailable |-> FALSE, start |-> 0, time_max |-> 0, raw |-> {}, busy |-> {},
     slots |-> <<>>, iterations |-> 0, advanced |-> TRUE, log |-> <<>>]

\* lines 18-97 with a failed calendar read answered by a scan of an empty busy list
find_available_slots_partial(interviewer_email, duration_minutes, list_raises) ==
    LET start == first_potential_slot_start(now)
        time_max == start + days_to_check * MinutesPerDay
        raw == IF list_raises THEN {} ELSE events_list(interviewer_email, start, time_max)
        busy == busy_slots_of(raw)
        res == scan_loop([potential_slot_start |-> start, available_slots |-> <<>>,
                          iterations |-> 0, advanced |-> TRUE], time_max, duration_minutes, busy)
        call == [NoQuery EXCEPT !.called = TRUE, !.at = now, !.email = interviewer_email,
                                !.duration = duration_minutes]
    IN  IF service # "ok" THEN [call EXCEPT !.unavailable = TRUE]
        ELSE [call EXCEPT !.unavailable = list_raises, !.start = start,
                          !.time_max = time_max, !.raw = raw, !.busy = busy,
                          !.slots = res.available_slots, !.iterations = res.iterations,
                          !.advanced = res.advanced]

\* lines 18-97 with a handler that keeps its cursor between calls: a call starts
\* its scan one step later for every call made before it
find_available_slots_kept_cursor(interviewer_email, duration_minutes, list_raises) ==
    LET start == first_potential_slot_start(now)
        time_max == start + days_to_check * MinutesPerDay
        raw == events_list(interviewer_email, start, time_max)
        busy == busy_slots_of(raw)
        res == scan_loop([potential_slot_start |-> start + Granularity * queries,
                          available_slots |-> <<>>, iterations |-> 0, advanced |-> TRUE],
                         time_max, duration_minutes, busy)
        call == [NoQuery EXCEPT !.called = TRUE, !.at = now, !.email = interviewer_email,
                                !.duration = duration_minutes]
    IN  IF service # "ok" THEN [call EXCEPT !.unavailable = TRUE]
        ELSE IF list_raises
        THEN [call EXCEPT !.unavailable = TRUE, !.start = start, !.time_max = time_max]
        ELSE [call EXCEPT !.start = start, !.time_max = time_max, !.raw = raw,
                          !.busy = busy, !.slots = res.available_slots,
                          !.iterations = res.iterations,
                          !.advanced = res.advanced]

\* lines 18-97; list_raises is the outcome of events().list(...).execute();
\* log holds the levels of the logger calls of lines 23, 40, 51, 54 and 96, the
\* only ones of the method;
\* the result is the returned list (slots) with the values the call computed
find_available_slots(interviewer_email, duration_minutes, list_raises) ==
    LET start == first_potential_slot_start(now)
        time_max == start + days_to_check * MinutesPerDay
        raw == events_list(interviewer_email, start, time_max)
        busy == busy_slots_of(raw)
        res == scan_loop([potential_slot_start |-> start, available_slots |-> <<>>,
                          iterations |-> 0, advanced |-> TRUE], time_max, duration_minutes, busy)
        call == [NoQuery EXCEPT !.called = TRUE, !.at = now, !.email = interviewer_email,
                                !.duration = duration_minutes]
    IN  IF service # "ok" THEN [call EXCEPT !.unavailable = TRUE, !.log = <<"error">>]
        ELSE IF list_raises
        THEN [call EXCEPT !.unavailable = TRUE, !.start = start, !.time_max = time_max,
                          !.log = <<"info", "error">>]
        ELSE [call EXCEPT !.start = start, !.time_max = time_max, !.raw = raw,
                          !.busy = busy, !.slots = res.available_slots,
                          !.iterations = res.iterations,
                          !.advanced = res.advanced,
                          !.log = <<"info", "info", "info">>]


-----------------------------------------------------------------------------
(* CalendarHandler.create_calendar_event and DatabaseHandler.log_interview *)

Sessions == {1, 2}                 \* browser sessions of the dashboard
applicant_of(s) == s               \* st.session_state.selected_applicant_id of a session

NoEvent == [id |-> 0, start |-> NoTime, end |-> NoTime, summary |-> 0, attendees |-> {}]

\* lines 103-111: the event body; the provider answers with the body and an id
event_body(applicant, interviewer_email, start_time, end_time) ==
    [id |-> next_event_id, start |-> DateTime(start_time), end |-> DateTime(end_time),
     summary |-> applicant, attendees |-> {interviewer_email}]

\* lines 99-121: the returned event, or NoEvent for None (no service, or insert raised)
create_calendar_event(applicant, interviewer_email, start_time, end_time, insert_raises) ==
    IF service # "ok" THEN NoEvent
    ELSE IF insert_raises THEN NoEvent
    ELSE event_body(applicant, interviewer_email, start_time, end_time)

\* events().insert(calendarId='primary', body, sendNotifications=True): the event is
\* stored on the calendar of the account whose credentials built the service; the
\* attendees are invited, and delivered tells whether the calendar provider also
\* puts the event on the attendee's own calendar (it does so or not according
\* to the attendee's account and settings, which the program does not control)
events_insert(event, delivered) ==
    [c \in CalendarIds |->
        IF c = "primary" \/ (delivered /\ c \in event.attendees)
        THEN calendar[c] \cup {event} ELSE calendar[c]]

\* lines 43-60 executing the INSERT twice
log_interview_twice(applicant_id, interviewer_id, title, start_time, end_time, event_id, execute_raises) ==
    IF execute_raises THEN interviews
    ELSE interviews \cup
         {[id |-> Cardinality(interviews) + n, applicant_id |-> applicant_id,
           interviewer_id |-> interviewer_id, event_title |-> title,
           start_time |-> start_time, end_time |-> end_time,
           google_calendar_event_id |-> event_id, status |-> "Scheduled"] : n \in {1, 2}}

\* lines 43-60 storing no event id in google_calendar_event_id
log_interview_wrong_id(applicant_id, interviewer_id, title, start_time, end_time, event_id, execute_raises) ==
    IF execute_raises THEN interviews
    ELSE interviews \cup
         {[id |-> Cardinality(interviews) + 1, applicant_id |-> applicant_id,
           interviewer_id |-> interviewer_id, event_title |-> title,
           start_time |-> start_time, end_time |-> end_time,
           google_calendar_event_id |-> 0, status |-> "Scheduled"]}

\* lines 43-60 keeping the row of an INSERT whose commit raised (no rollback)
log_interview_no_rollback(applicant_id, interviewer_id, title, start_time, end_time, event_id, execute_raises) ==
    interviews \cup
         {[id |-> Cardinality(interviews) + 1, applicant_id |-> applicant_id,
           interviewer_id |-> interviewer_id, event_title |-> title,
           start_time |-> start_time, end_time |-> end_time,
           google_calendar_event_id |-> event_id, status |-> "Scheduled"]}

\* lines 43-60 with an INSERT that names no status: the column's default of
\* create_tables (line 31) applies
log_interview_default_status(applicant_id, interviewer_id, title, start_time, end_time, event_id, execute_raises) ==
    IF execute_raises THEN interviews
    ELSE interviews \cup
         {[id |-> Cardinality(interviews) + 1, applicant_id |-> applicant_id,
           interviewer_id |-> interviewer_id, event_title |-> title,
           start_time |-> start_time, end_time |-> end_time,
           google_calendar_event_id |-> event_id, status |-> "Pending"]}

\* lines 43-60: the table after the call; execute_raises covers a lost connection
\* and a failing INSERT
log_interview(applicant_id, interviewer_id, title, start_time, end_time, event_id, execute_raises) ==
    IF execute_raises THEN interviews
    ELSE interviews \cup
         {[id |-> Cardinality(interviews) + 1, applicant_id |-> applicant_id,
           interviewer_id |-> interviewer_id, event_title |-> title,
           start_time |-> start_time, end_time |-> end_time,
           google_calendar_event_id |-> event_id, status |-> "Scheduled"]}

-----------------------------------------------------------------------------
(* app.py: the scheduling panel of one applicant *)

NoLocals == [interviewer_id |-> 0, start_time |-> 0, end_time |-> 0]
NoAttempt == [result |-> "none", slot |-> 0]
ExternalCreateFailed(slot) == [result |-> "ExternalCreateFailed", slot |-> slot]

\* database_handler.py lines 62-78: the rows of an applicant
get_interviews_for_applicant(applicant_id) ==
    {r \in interviews : r.applicant_id = applicant_id}

\* lines 43-44: @st.cache_data(ttl=600) keeps the value returned for an
\* applicant_id for ttl seconds; nothing in the scheduling panel clears it
ttl == 600
Seconds(n) == n.t * 60 + n.sec
NotCached == [cached |-> FALSE, at |-> 0, rows |-> {}]
cache_hit(applicant_id) ==
    /\ load_interviews_cache[applicant_id].cached
    /\ Seconds(now) - load_interviews_cache[applicant_id].at < ttl

\* the value load_interviews(applicant_id) returns
load_interviews(applicant_id) ==
    IF cache_hit(applicant_id)
    THEN load_interviews_cache[applicant_id].rows
    ELSE get_interviews_for_applicant(applicant_id)

\* the cache after a call of load_interviews(applicant_id)
load_interviews_called(applicant_id) ==
    [load_interviews_cache EXCEPT ![applicant_id] =
        [cached |-> TRUE,
         at |-> IF cache_hit(applicant_id) THEN @.at ELSE Seconds(now),
         rows |-> load_interviews(applicant_id)]]

\* line 185: the "Schedule New Interview" button toggles the panel; lines 187-190:
\* the script run that follows reads load_interviews when the panel is open
ToggleSchedule(s) ==
    /\ pc[s] = "idle"
    /\ show_schedule' = [show_schedule EXCEPT ![s] = ~ @]
    /\ last_attempt' = [last_attempt EXCEPT ![s] = NoAttempt]
    /\ load_interviews_cache' = IF show_schedule'[s]
                                THEN load_interviews_called(applicant_of(s))
                                ELSE load_interviews_cache
    /\ UNCHANGED <<now, service, calendar, interviews, next_event_id,
                   schedule_interviewer, schedule_duration, available_slots, pc,
                   created_event, locals, last_query, bookings, queries>>

\* lines 196-206 with the query placing a tentative hold for its first slot on
\* the interviewer's calendar
FindAvailableTimes_hold(s, interviewer, duration, list_raises) ==
    /\ pc[s] = "idle"
    /\ show_schedule[s]
    /\ LET q == find_available_slots(email_of(interviewer), duration, list_raises)
       IN  /\ schedule_interviewer' = [schedule_interviewer EXCEPT ![s] = interviewer]
           /\ schedule_duration' = [schedule_duration EXCEPT ![s] = duration]
           /\ available_slots' = [available_slots EXCEPT ![s] = q.slots]
           /\ last_query' = [last_query EXCEPT ![s] = q]
    /\ last_attempt' = [last_attempt EXCEPT ![s] = NoAttempt]
    /\ queries' = queries + 1
    \* line 190, rendered by the same script run
    /\ load_interviews_cache' = load_interviews_called(applicant_of(s))
    /\ calendar' = [calendar EXCEPT ![email_of(interviewer)] =
                       @ \cup {[id |-> 0, summary |-> 0, attendees |-> {},
                                 start |-> DateTime(first_potential_slot_start(now)),
                                 end |-> DateTime(first_potential_slot_start(now)
                                                    + duration)]}]
    /\ UNCHANGED <<now, service, interviews, next_event_id, show_schedule,
                   pc, created_event, locals, bookings>>

\* lines 196-206: schedule_form, "1. Find Available Times"
FindAvailableTimes(s, interviewer, duration, list_raises) ==
    /\ pc[s] = "idle"
    /\ show_schedule[s]
    /\ LET q == find_available_slots(email_of(interviewer), duration, list_raises)
       IN  /\ schedule_interviewer' = [schedule_interviewer EXCEPT ![s] = interviewer]
           /\ schedule_duration' = [schedule_duration EXCEPT ![s] = duration]
           /\ available_slots' = [available_slots EXCEPT ![s] = q.slots]
           /\ last_query' = [last_query EXCEPT ![s] = q]
    /\ last_attempt' = [last_attempt EXCEPT ![s] = NoAttempt]
    /\ queries' = queries + 1
    \* line 190, rendered by the same script run
    /\ load_interviews_cache' = load_interviews_called(applicant_of(s))
    /\ UNCHANGED <<now, service, calendar, interviews, next_event_id, show_schedule,
                   pc, created_event, locals, bookings>>

\* lines 219-233 and 242 reading the interviewer and the duration from the
\* selectboxes of schedule_form (sel_int, sel_dur), whatever they show, and not
\* from the keys stored by "Find Available Times"
ConfirmAndBook_widget_values(s, k, insert_raises, delivered) ==
    /\ pc[s] = "idle"
    /\ show_schedule[s]
    /\ available_slots[s] # <<>>
    /\ k \in 1..Len(available_slots[s])
    /\ \E interviewer \in Interviewers, duration_val \in Durations :
       LET start_time == available_slots[s][k]
           end_time == start_time + duration_val
           event == create_calendar_event(applicant_of(s), email_of(interviewer),
                                          start_time, end_time, insert_raises)
       IN  IF event # NoEvent
           THEN /\ calendar' = events_insert(event, delivered)
                /\ next_event_id' = next_event_id + 1
                /\ created_event' = [created_event EXCEPT ![s] = event]
                /\ locals' = [locals EXCEPT ![s] =
                                  [interviewer_id |-> interviewer,
                                   start_time |-> start_time, end_time |-> end_time]]
                /\ pc' = [pc EXCEPT ![s] = "created"]
                /\ last_attempt' = [last_attempt EXCEPT ![s] = NoAttempt]
                /\ bookings' = Append(bookings,
                       [session |-> s, interviewer |-> interviewer, start |-> start_time,
                        end |-> end_time,
                        retry |-> (last_attempt[s] = ExternalCreateFailed(start_time)),
                        in_flight |-> {created_event[o].id : o \in {x \in Sessions : pc[x] = "created"}},
                        logged |-> "pending", reported |-> "pending"])
           ELSE \* st.error("Failed to create Google Calendar event.")
                /\ last_attempt' = [last_attempt EXCEPT ![s] =
                                        ExternalCreateFailed(start_time)]
                /\ UNCHANGED <<calendar, next_event_id, created_event, locals, pc,
                               bookings>>
    \* line 190, rendered by the same script run
    /\ load_interviews_cache' = load_interviews_called(applicant_of(s))
    /\ UNCHANGED <<now, service, interviews, schedule_interviewer, schedule_duration,
                   available_slots, show_schedule, last_query, queries>>

\* lines 219-233 and 242: booking_form, "Confirm & Book", up to the return of
\* create_calendar_event; k is the position of the selected slot
ConfirmAndBook(s, k, insert_raises, delivered) ==
    /\ pc[s] = "idle"
    /\ show_schedule[s]
    /\ available_slots[s] # <<>>
    /\ k \in 1..Len(available_slots[s])
    /\ LET interviewer == schedule_interviewer[s]
           duration_val == schedule_duration[s]
           start_time == available_slots[s][k]
           end_time == start_time + duration_val
           event == create_calendar_event(applicant_of(s), email_of(interviewer),
                                          start_time, end_time, insert_raises)
       IN  IF event # NoEvent
           THEN /\ calendar' = events_insert(event, delivered)
                /\ next_event_id' = next_event_id + 1
                /\ created_event' = [created_event EXCEPT ![s] = event]
                /\ locals' = [locals EXCEPT ![s] =
                                  [interviewer_id |-> interviewer,
                                   start_time |-> start_time, end_time |-> end_time]]
                /\ pc' = [pc EXCEPT ![s] = "created"]
                /\ last_attempt' = [last_attempt EXCEPT ![s] = NoAttempt]
                /\ bookings' = Append(bookings,
                       [session |-> s, interviewer |-> interviewer, start |-> start_time,
                        end |-> end_time,
                        retry |-> (last_attempt[s] = ExternalCreateFailed(start_time)),
                        in_flight |-> {created_event[o].id : o \in {x \in Sessions : pc[x] = "created"}},
                        logged |-> "pending", reported |-> "pending"])
           ELSE \* st.error("Failed to create Google Calendar event.")
                /\ last_attempt' = [last_attempt EXCEPT ![s] =
                                        ExternalCreateFailed(start_time)]
                /\ UNCHANGED <<calendar, next_event_id, created_event, locals, pc,
                               bookings>>
    \* line 190, rendered by the same script run
    /\ load_interviews_cache' = load_interviews_called(applicant_of(s))
    /\ UNCHANGED <<now, service, interviews, schedule_interviewer, schedule_duration,
                   available_slots, show_schedule, last_query, queries>>

\* lines 234-241: the rest of "Confirm & Book" after the event was created
LogAndCleanup(s, execute_raises) ==
    /\ pc[s] = "created"
    /\ LET e == created_event[s]
       IN  /\ interviews' = log_interview(applicant_of(s), locals[s].interviewer_id,
                                          e.summary, locals[s].start_time,
                                          locals[s].end_time, e.id, execute_raises)
           \* st.success("Interview booked! Event created in Google Calendar.")
           /\ bookings' = [bookings EXCEPT ![e.id] =
                  [@ EXCEPT !.logged = IF execute_raises THEN "failed" ELSE "ok",
                            !.reported = "success"]]
    \* keys_to_delete
    /\ schedule_interviewer' = [schedule_interviewer EXCEPT ![s] = 0]
    /\ schedule_duration' = [schedule_duration EXCEPT ![s] = 0]
    /\ available_slots' = [available_slots EXCEPT ![s] = <<>>]
    /\ show_schedule' = [show_schedule EXCEPT ![s] = FALSE]
    /\ created_event' = [created_event EXCEPT ![s] = NoEvent]
    /\ locals' = [locals EXCEPT ![s] = NoLocals]
    /\ pc' = [pc EXCEPT ![s] = "idle"]
    /\ last_query' = [last_query EXCEPT ![s] = NoQuery]
    \* st.rerun(): the panel's key is deleted, line 190 is not reached
    /\ UNCHANGED <<now, service, calendar, next_event_id, last_attempt, queries,
                   load_interviews_cache>>


-----------------------------------------------------------------------------
(* The environment: the clock and the entries already on the calendars *)

Clock(w, d, h, m, sec) == [t |-> At(w, d, h, m), sec |-> sec]

\* instants at which availability is queried in the slot specification
NowsSlots ==
    {Clock(0, 0, 0, 0, 0),    Clock(0, 0, 8, 10, 0),   Clock(0, 0, 9, 0, 0),
     Clock(0, 0, 10, 7, 20),  Clock(0, 0, 10, 15, 30), Clock(0, 2, 17, 50, 0),
     Clock(0, 3, 12, 0, 0),   Clock(0, 4, 17, 50, 0),  Clock(0, 4, 18, 30, 0),
     Clock(0, 5, 11, 0, 0),   Clock(0, 6, 23, 50, 59), Clock(0, 4, 17, 45, 30)}

Entry(n, start, end) ==
    [id |-> 0 - n, start |-> start, end |-> end, summary |-> 0, attendees |-> {}]

\* entries an interviewer's calendar may hold before the first booking: timed
\* ones, all-day ones (one of them covering three weeks) and ones without a
\* start or an end
BusyPool ==
    {Entry(1, DateTime(At(0, 0, 9, 0)), DateTime(At(0, 0, 10, 0))),
     Entry(2, DateTime(At(0, 0, 11, 0)), DateTime(At(0, 0, 12, 0))),
     Entry(3, DateTime(At(0, 1, 10, 5)), DateTime(At(0, 1, 10, 50))),
     Entry(4, DateTime(At(0, 4, 17, 0)), DateTime(At(1, 0, 9, 30))),
     Entry(5, DateTime(At(1, 0, 9, 0)), DateTime(At(1, 0, 10, 0))),
     Entry(6, Date(2), Date(3)),
     Entry(7, NoTime, DateTime(At(0, 3, 10, 0))),
     Entry(8, DateTime(At(0, 3, 9, 0)), NoTime),
     Entry(9, Date(0), Date(3 * DaysPerWeek))}

TypeOK ==
    /\ now \in NowsSlots
    /\ service \in {"ok", "none"}
    /\ DOMAIN calendar = CalendarIds
    /\ next_event_id \in 1..(MaxEvents + RaceEvents + 1)
    /\ \A s \in Sessions :
        /\ schedule_interviewer[s] \in Interviewers \cup {0}
        /\ schedule_duration[s] \in Durations \cup {0}
        /\ show_schedule[s] \in BOOLEAN
        /\ pc[s] \in {"idle", "created"}

InitApp ==
    /\ service \in {"ok", "none"}        \* CalendarHandler.__init__, lines 11-16
    /\ interviews = {}
    /\ next_event_id = 1
    /\ schedule_interviewer = [s \in Sessions |-> 0]
    /\ schedule_duration = [s \in Sessions |-> 0]
    /\ available_slots = [s \in Sessions |-> <<>>]
    /\ show_schedule = [s \in Sessions |-> FALSE]
    /\ pc = [s \in Sessions |-> "idle"]
    /\ created_event = [s \in Sessions |-> NoEvent]
    /\ locals = [s \in Sessions |-> NoLocals]
    /\ last_query = [s \in Sessions |-> NoQuery]
    /\ last_attempt = [s \in Sessions |-> NoAttempt]
    /\ bookings = <<>>
    /\ queries = 0
    /\ load_interviews_cache = [a \in {applicant_of(s) : s \in Sessions} |-> NotCached]

\* the booking specification: two sessions and two interviewers, the first
\* of them with an entry on the calendar
Init ==
    /\ InitApp
    /\ now = Clock(0, 0, 8, 10, 0)
    /\ calendar = [c \in CalendarIds |->
                     IF c = email_of(1)
                     THEN {Entry(1, DateTime(At(0, 0, 9, 0)), DateTime(At(0, 0, 10, 0)))}
                     ELSE {}]

\* the steps of the dashboard's sessions, with at most max_queries availability
\* queries and max_events created events in a behaviour; deliveries are the outcomes
\* of the invitation of the interviewer that the behaviour may see
Steps(max_queries, max_events, deliveries) ==
    \/ \E s \in Sessions : ToggleSchedule(s)
    \/ \E s \in Sessions, i \in Interviewers, d \in Durations, r \in BOOLEAN :
         queries < max_queries /\ FindAvailableTimes(s, i, d, r)
    \/ \E s \in Sessions, k \in 1..MaxPick, r \in BOOLEAN, dl \in deliveries :
         next_event_id <= max_events /\ ConfirmAndBook(s, k, r, dl)
    \/ \E s \in Sessions, r \in BOOLEAN : LogAndCleanup(s, r)

Next == Steps(MaxQueries, MaxEvents, {TRUE})

Spec == Init /\ [][Next]_vars

\* the invitation specification: a booking whose invitation may or may not reach
\* the interviewer's calendar, followed by another availability query
NextInvite == Steps(InviteQueries, InviteEvents, BOOLEAN)

SpecInvite == Init /\ [][NextInvite]_vars

\* the same sessions with room for two bookings that meet
NextRace == Steps(RaceQueries, RaceEvents, {TRUE})

SpecRace == Init /\ [][NextRace]_vars

\* the late specification: one session working at Monday 17:40, when the first
\* offered slot is the last one of the day
InitLate ==
    /\ InitApp
    /\ now = Clock(0, 0, 17, 40, 0)
    /\ calendar = [c \in CalendarIds |->
                     IF c = email_of(1)
                     THEN {Entry(1, DateTime(At(0, 0, 9, 0)), DateTime(At(0, 0, 10, 0)))}
                     ELSE {}]

NextLate ==
    \/ ToggleSchedule(1)
    \/ \E i \in Interviewers, d \in Durations, r \in BOOLEAN :
         queries < LateQueries /\ FindAvailableTimes(1, i, d, r)
    \/ \E k \in 1..MaxPick, r \in BOOLEAN :
         next_event_id <= LateEvents /\ ConfirmAndBook(1, k, r, TRUE)
    \/ \E r \in BOOLEAN : LogAndCleanup(1, r)

SpecLate == InitLate /\ [][NextLate]_vars

\* the slot specification: one session calls find_available_slots once, at any
\* instant of NowsSlots, on a calendar holding up to MaxBusy entries of BusyPool
InitSlots ==
    /\ InitApp
    /\ now \in NowsSlots
    /\ \E busy \in {b \in SUBSET BusyPool : Cardinality(b) <= MaxBusy} :
        calendar = [c \in CalendarIds |-> IF c = email_of(1) THEN busy ELSE {}]

NextSlots ==
    \/ ToggleSchedule(1)
    \/ \E d \in Durations, r \in BOOLEAN :
         ~ last_query[1].called /\ FindAvailableTimes(1, 1, d, r)

SpecSlots == InitSlots /\ [][NextSlots]_vars

\* the pair specification: each of the two sessions calls find_available_slots
\* once for the first interviewer, at the same instant and on the same calendar
InitPair ==
    /\ InitApp
    /\ service = "ok"
    /\ now \in NowsSlots
    /\ \E busy \in {b \in SUBSET BusyPool : Cardinality(b) <= PairBusy} :
        calendar = [c \in CalendarIds |-> IF c = email_of(1) THEN busy ELSE {}]

NextPair ==
    \/ \E s \in Sessions : ToggleSchedule(s)
    \/ \E s \in Sessions, d \in Durations :
         ~ last_query[s].called /\ FindAvailableTimes(s, 1, d, FALSE)

SpecPair == InitPair /\ [][NextPair]_vars

\* the horizon specification: one call of find_available_slots on a calendar
\* whose entries start where the window of a call at Thursday 12:00, or of a call
\* at Monday 10:07:20, ends
HorizonPool ==
    {Entry(10, DateTime(At(1, 3, 12, 0)), DateTime(At(1, 3, 13, 0))),
     Entry(11, DateTime(At(1, 0, 10, 15)), DateTime(At(1, 0, 11, 0)))}

InitHorizon ==
    /\ InitApp
    /\ now \in NowsSlots
    /\ \E busy \in SUBSET HorizonPool :
        calendar = [c \in CalendarIds |-> IF c = email_of(1) THEN busy ELSE {}]

SpecHorizon == InitHorizon /\ [][NextSlots]_vars

\* the store specification: DatabaseHandler.log_interview called by any caller
\* with any arguments, the same event id more than once included
StoreStarts == {At(0, 0, 10, 0), At(0, 0, 10, 30)}
StoreEventIds == {1, 2}

LogInterviewCall(applicant_id, interviewer_id, start_time, event_id, execute_raises) ==
    /\ interviews' = log_interview(applicant_id, interviewer_id, applicant_id, start_time,
                                   start_time + 30, event_id, execute_raises)
    /\ UNCHANGED <<now, service, calendar, next_event_id, schedule_interviewer,
                   schedule_duration, available_slots, show_schedule, pc, created_event,
                   locals, last_query, last_attempt, bookings, queries,
                   load_interviews_cache>>

NextStore ==
    \E a \in Sessions, i \in Interviewers, t \in StoreStarts, e \in StoreEventIds,
       r \in BOOLEAN :
        Cardinality(interviews) < MaxRows /\ LogInterviewCall(applicant_of(a), i, t, e, r)

SpecStore == Init /\ [][NextStore]_vars


-----------------------------------------------------------------------------
(* Properties of find_available_slots, stated on the calls recorded in last_query *)

\* the calls that returned the result of a scan
Answered == {s \in Sessions : last_query[s].called /\ ~ last_query[s].unavailable}

SlotSet(q) == {q.slots[k] : k \in 1..Len(q.slots)}

\* the busy intervals of the items the calendar read returned with a start and an end
Fetched(q) ==
    {[start |-> fromisoformat(e.start), end |-> fromisoformat(e.end)] :
        e \in {x \in q.raw : x.start.tag # "none" /\ x.end.tag # "none"}}

\* the quarter-hour clock ticks of the scanned window that lie in working hours
Ticks(q) ==
    {t \in {Granularity * j : j \in (q.start \div Granularity)..(q.time_max \div Granularity)} :
        /\ q.start <= t /\ t < q.time_max
        /\ weekday(t) < 5
        /\ WorkStartHour <= hour(t) /\ hour(t) < WorkEndHour}

Overlaps(t, d, b) == t < b.end /\ t + d > b.start

\* C1: no returned slot [s, s + D) overlaps a busy interval fetched by the same call
C1_NoSlotOverlapsBusy ==
    \A s \in Answered :
        LET q == last_query[s]
        IN  \A t \in SlotSet(q) : \A b \in Fetched(q) :
                ~ (t < b.end /\ t + q.duration > b.start)

\* a call that fetched busy intervals, returned slots and left out a tick
C1_Witness ==
    \E s \in Answered :
        LET q == last_query[s]
        IN  /\ Fetched(q) # {}
            /\ q.slots # <<>>
            /\ \E t \in Ticks(q) : t \notin SlotSet(q)

\* C7: every returned slot starts on Monday..Friday with 9 <= hour < 18
C7_SlotsInWorkingHours ==
    \A s \in Answered :
        \A t \in SlotSet(last_query[s]) :
            /\ weekday(t) \in 0..4
            /\ WorkStartHour <= hour(t)
            /\ hour(t) < WorkEndHour

\* calls made before 9, after 18 and on a weekend that returned slots
C7_Witness ==
    \E s \in Answered :
        LET q == last_query[s]
        IN  /\ q.slots # <<>>
            /\ \/ hour(q.at.t) < WorkStartHour
               \/ hour(q.at.t) >= WorkEndHour
               \/ weekday(q.at.t) >= 5

\* C8: the returned list is strictly increasing in start time
C8_StrictlyIncreasing ==
    \A s \in Answered :
        LET q == last_query[s]
        IN  \A k \in 1..(Len(q.slots) - 1) : q.slots[k] < q.slots[k + 1]

\* a returned list that continues over the end of a day and over a weekend
C8_Witness ==
    \E s \in Answered :
        LET q == last_query[s]
        IN  \E j, k \in 1..(Len(q.slots) - 1) :
                /\ weekday(q.slots[j]) = 4 /\ weekday(q.slots[j + 1]) = 0
                /\ weekday(q.slots[k]) = 1 /\ weekday(q.slots[k + 1]) = 2

\* C9: half-open overlap: a busy interval that only touches a candidate (ends at
\* its start or starts at its end) does not exclude it, so such a candidate is
\* left out only when another busy interval overlaps it; a busy interval with
\* candidate.start < busy.end and candidate.end > busy.start excludes it
C9_HalfOpenOverlap ==
    \A s \in Answered :
        LET q == last_query[s]
            d == q.duration
        IN  \A t \in Ticks(q) : \A b \in Fetched(q) :
                /\ (b.end = t \/ b.start = t + d) =>
                      (t \in SlotSet(q) \/ \E c \in Fetched(q) \ {b} : Overlaps(t, d, c))
                /\ Overlaps(t, d, b) => t \notin SlotSet(q)

\* a returned slot that starts where a busy interval ends and a returned slot
\* that ends where a busy interval starts
C9_Witness ==
    \E s \in Answered :
        LET q == last_query[s]
        IN  /\ \E t \in SlotSet(q) : \E b \in Fetched(q) : b.start < b.end /\ b.end = t
            /\ \E t \in SlotSet(q) : \E b \in Fetched(q) :
                   b.start < b.end /\ b.start = t + q.duration

\* C10: every quarter-hour tick of the window in working hours on a weekday whose
\* range overlaps no fetched busy interval is returned; with a busy interval
\* [09:00, 10:00) and duration 30 the first slot of that day is 10:00 (when no
\* other busy interval overlaps [10:00, 10:30))
C10_ScanComplete ==
    \A s \in Answered :
        LET q == last_query[s]
            d == q.duration
        IN  /\ \A t \in Ticks(q) :
                   (\A b \in Fetched(q) : ~ Overlaps(t, d, b)) => t \in SlotSet(q)
            /\ \A b \in Fetched(q) :
                   ( /\ d = 30
                     /\ weekday(b.start) < 5
                     /\ b.start = replace_hm(b.start, WorkStartHour, 0)
                     /\ b.end = b.start + 60
                     /\ q.start <= b.start
                     /\ \A c \in Fetched(q) \ {b} : ~ Overlaps(b.end, d, c) )
                   => /\ b.end \in SlotSet(q)
                      /\ \A t \in SlotSet(q) :
                             t \div MinutesPerDay = b.start \div MinutesPerDay => t >= b.end

\* the scenario: busy [09:00, 10:00), duration 30, and 10:00 the first slot returned
C10_Witness ==
    \E s \in Answered :
        LET q == last_query[s]
        IN  /\ q.duration = 30
            /\ [start |-> At(0, 0, 9, 0), end |-> At(0, 0, 10, 0)] \in Fetched(q)
            /\ q.start = At(0, 0, 9, 0)
            /\ q.slots # <<>>
            /\ q.slots[1] = At(0, 0, 10, 0)


-----------------------------------------------------------------------------
(* Properties of the booking flow *)

AllEvents == UNION {calendar[c] : c \in CalendarIds}
RowsOf(event_id) == {r \in interviews : r.google_calendar_event_id = event_id}
Booked == 1..Len(bookings)          \* the ids of the events created by bookings
Completed == {n \in Booked : bookings[n].reported = "success"}

\* C2: no two Interview records of the same interviewer overlap
C2_NoOverlappingInterviews ==
    \A r1, r2 \in interviews :
        (r1 # r2 /\ r1.interviewer_id = r2.interviewer_id) =>
            ~ (r1.start_time < r2.end_time /\ r2.start_time < r1.end_time)

\* a Confirm & Book of session s whose external create failed
CreateFailedStep(s) ==
    /\ last_attempt'[s] # last_attempt[s]
    /\ last_attempt'[s].result = "ExternalCreateFailed"

\* a failed external create writes no record and leaves the session's slot list,
\* interviewer and duration as they were
FailureChangesNothing ==
    \A s \in Sessions :
        CreateFailedStep(s) =>
            /\ interviews' = interviews
            /\ calendar' = calendar
            /\ available_slots'[s] = available_slots[s]
            /\ schedule_interviewer'[s] = schedule_interviewer[s]
            /\ schedule_duration'[s] = schedule_duration[s]

\* C3 as stated: a failed create changes nothing, and a retry with the same slot
\* whose create succeeds leaves exactly one Interview record for that booking
C3_RetryLeavesExactlyOne ==
    /\ [][FailureChangesNothing]_vars
    /\ [](\A n \in Completed : bookings[n].retry => Cardinality(RowsOf(n)) = 1)

\* C3 amended: a failed create changes nothing, and a retry with the same slot
\* whose create succeeds leaves exactly one Interview record for that booking
\* when the local write succeeds, and none when the local write fails
C3_RetryLeavesOneIfLogged ==
    /\ [][FailureChangesNothing]_vars
    /\ [](\A n \in Completed :
            bookings[n].retry =>
                Cardinality(RowsOf(n)) = IF bookings[n].logged = "ok" THEN 1 ELSE 0)

\* a completed retry of a failed booking, logged
C3_Witness ==
    \E n \in Completed : bookings[n].retry /\ bookings[n].logged = "ok"

\* C4: every Interview record carries the id, start and end of an event that the
\* external calendar had already created when the record was inserted
C4_RecordAfterExternalCreate ==
    /\ [](\A r \in interviews :
            \E e \in calendar["primary"] :
                /\ e.id = r.google_calendar_event_id
                /\ fromisoformat(e.start) = r.start_time
                /\ fromisoformat(e.end) = r.end_time)
    /\ [][\A r \in interviews' \ interviews :
            \E e \in calendar["primary"] : e.id = r.google_calendar_event_id]_vars

\* an Interview record written by a booking
C4_Witness == \E n \in Completed : bookings[n].logged = "ok" /\ RowsOf(n) # {}

\* C5: when the external create succeeded and the local write failed, the event
\* stays on the calendar, no Interview record exists for it and the booking was
\* reported as successful; no step removes an event from a calendar
C5_LocalLogFailure ==
    /\ [](\A n \in Booked :
            bookings[n].logged = "failed" =>
                /\ \E e \in calendar["primary"] : e.id = n
                /\ RowsOf(n) = {}
                /\ bookings[n].reported = "success")
    /\ [][\A c \in CalendarIds : calendar[c] \subseteq calendar'[c]]_vars

\* a booking whose local write failed
C5_Witness == \E n \in Booked : bookings[n].logged = "failed"

\* two bookings were concurrent when one was created while the other was between
\* its external create and its local write
Concurrent(m, n) == m \in bookings[n].in_flight \/ n \in bookings[m].in_flight

\* C6: two events created for the same interviewer overlap only if their bookings
\* target the same slot start and were concurrent
C6_DoubleBookingOnlyConcurrentSameSlot ==
    \A m, n \in Booked :
        ( /\ m # n
          /\ bookings[m].interviewer = bookings[n].interviewer
          /\ bookings[m].start < bookings[n].end
          /\ bookings[n].start < bookings[m].end )
        => (bookings[m].start = bookings[n].start /\ Concurrent(m, n))

-----------------------------------------------------------------------------
(* Further properties of find_available_slots *)

\* Monday 09:00 of the week after the week of instant t
FollowingMonday(t) ==
    ((t \div (DaysPerWeek * MinutesPerDay)) + 1) * (DaysPerWeek * MinutesPerDay)
        + WorkStartHour * 60

\* an instant n on Friday later than 17:45, or on Saturday or Sunday
AfterFridayClose(n) ==
    \/ weekday(n.t) >= 5
    \/ /\ weekday(n.t) = 4
       /\ \/ n.t % MinutesPerDay > 17 * 60 + 45
          \/ (n.t % MinutesPerDay = 17 * 60 + 45 /\ n.sec > 0)

\* C11: with an empty busy list, a call made on Friday later than 17:45 or on
\* Saturday or Sunday returns the following Monday 09:00 as its first slot
C11_FirstSlotFollowingMonday ==
    \A s \in Answered :
        LET q == last_query[s]
        IN  (Fetched(q) = {} /\ AfterFridayClose(q.at)) =>
                /\ q.slots # <<>>
                /\ q.slots[1] = FollowingMonday(q.at.t)

\* C12: for the same now and the same fetched busy list, the slots returned for
\* a duration are among the slots returned for every shorter duration
C12_MonotoneInDuration ==
    \A s1, s2 \in Answered :
        LET q1 == last_query[s1]
            q2 == last_query[s2]
        IN  (q1.at = q2.at /\ q1.raw = q2.raw /\ q1.duration <= q2.duration) =>
                /\ SlotSet(q2) \subseteq SlotSet(q1)
                /\ Len(q2.slots) <= Len(q1.slots)

\* calls for 30 and for 60 minutes on a calendar with a busy interval, the
\* second returning fewer slots than the first
C12_Witness ==
    \E s1, s2 \in Answered :
        LET q1 == last_query[s1]
            q2 == last_query[s2]
        IN  /\ q1.at = q2.at /\ q1.raw = q2.raw
            /\ q1.duration = 30 /\ q2.duration = 60
            /\ Fetched(q1) # {}
            /\ q2.slots # <<>>
            /\ Len(q2.slots) < Len(q1.slots)

\* a step that is a call of find_available_slots
QueryStep == queries' = queries + 1

Called == {s \in Sessions : last_query[s].called}

\* what schedule_form holds in st.session_state after a call
CallerView(s) == <<schedule_interviewer[s], schedule_duration[s], available_slots[s]>>

\* C14: a call made without a calendar service, or whose calendar read raised,
\* returns the empty list (nothing computed from a partial busy list), and the
\* caller is left with what a successful call that found no slot leaves
C14_UnavailableReturnsEmpty ==
    \A s \in Called :
        LET q == last_query[s]
        IN  /\ q.unavailable => (q.slots = <<>> /\ q.raw = {} /\ q.iterations = 0)
            /\ q.slots = <<>> =>
                  /\ email_of(schedule_interviewer[s]) = q.email
                  /\ CallerView(s) = <<schedule_interviewer[s], q.duration, <<>>>>

\* a call whose calendar read raised although the service was built and the
\* calendar holds entries
C14_Witness ==
    \E s \in Called :
        /\ last_query[s].unavailable
        /\ service = "ok"
        /\ calendar[last_query[s].email] # {}
        /\ available_slots[s] = <<>>

\* a successful call that found no free slot
AnsweredEmpty == \E s \in Answered : last_query[s].slots = <<>>

-----------------------------------------------------------------------------
(* Properties of the interviews table *)

\* C15: every row of the interviews table has status 'Scheduled'; no row with
\* status 'Pending' is written
C15_RowsAreScheduled ==
    /\ [](\A r \in interviews : r.status = "Scheduled")
    /\ [][\A r \in interviews' \ interviews : r.status # "Pending"]_vars

\* a row written by the booking flow, with its status
C15_Witness == \E r \in interviews : r.status = "Scheduled" /\ r.google_calendar_event_id > 0

\* C16: the interviews table holds at most one row per google_calendar_event_id,
\* also after log_interview was called again with the same event id
C16_OneRowPerEventId ==
    \A r1, r2 \in interviews :
        r1.google_calendar_event_id = r2.google_calendar_event_id => r1 = r2

-----------------------------------------------------------------------------
(* Properties of the construction of CalendarHandler *)

\* C17: when the credentials could not be obtained at construction there is no
\* handler that answers a query or a booking afterwards
C17_NoHandlerWithoutCredentials ==
    service = "none" =>
        /\ \A s \in Sessions : ~ last_query[s].called
        /\ \A s \in Sessions : last_attempt[s] = NoAttempt

-----------------------------------------------------------------------------
(* Properties of the window and of the scan loop *)

\* the start boundary for a call at instant n, in whole minutes: 09:00 of the
\* next day from 18:00 on, 09:00 of the same day before 09:00, else the minute
\* rounded up to a multiple of 15
StartBoundary(n) ==
    LET day == n.t \div MinutesPerDay
        minute_of_day == n.t % MinutesPerDay
    IN  IF minute_of_day >= 18 * 60 THEN (day + 1) * MinutesPerDay + 9 * 60
        ELSE IF minute_of_day < 9 * 60 THEN day * MinutesPerDay + 9 * 60
        ELSE ((n.t + 14) \div 15) * 15

\* the calls that computed a window (the service was built)
Windowed == {s \in Called : service = "ok"}

\* C18: the start boundary is the next day 09:00 when now's hour >= 18, the same
\* day 09:00 when now's hour < 9, and otherwise now with its minute rounded up to
\* a multiple of 15; it is a whole minute with minute in {0, 15, 30, 45}
C18_StartBoundary ==
    \A s \in Windowed :
        LET q == last_query[s]
        IN  /\ q.start = StartBoundary(q.at)
            /\ minute(q.start) \in {0, 15, 30, 45}

\* a call at 10:07:20 whose start boundary is 10:15
C18_Witness ==
    \E s \in Windowed :
        /\ last_query[s].at = Clock(0, 0, 10, 7, 20)
        /\ last_query[s].start = At(0, 0, 10, 15)

\* C19: every returned slot start s has startBoundary <= s < windowEnd, where
\* windowEnd = startBoundary + 7 days
C19_SlotsInsideWindow ==
    \A s \in Answered :
        LET q == last_query[s]
        IN  /\ q.time_max = q.start + 7 * MinutesPerDay
            /\ \A t \in SlotSet(q) : q.start <= t /\ t < q.time_max

\* a call whose window ends on a Saturday after 09:00, so that the end-of-day
\* reset of the last Friday stays inside the window and the weekend skip that
\* follows moves the cursor past windowEnd
C19_Witness ==
    \E s \in Answered :
        LET q == last_query[s]
        IN  /\ q.slots # <<>>
            /\ weekday(q.time_max) = 5
            /\ hour(q.time_max) > WorkStartHour
            /\ skip_weekend(q.time_max - 60) > q.time_max

\* the number of quarter hours in a window of seven days
MaxIterations == 7 * 24 * 4

\* C20: the scan loop of every call ended, each of its iterations moved the
\* cursor forward, and it made at most 672 iterations
C20_ScanTerminates ==
    \A s \in Answered :
        LET q == last_query[s]
        IN  /\ q.advanced
            /\ q.iterations <= MaxIterations

\* a call made on a weekend whose scan took emit steps, end-of-day resets and
\* weekend skips: more iterations than there are working-hour ticks in the window
C20_Witness ==
    \E s \in Answered :
        LET q == last_query[s]
        IN  /\ weekday(q.at.t) >= 5
            /\ q.iterations > Cardinality(Ticks(q)) + 5

-----------------------------------------------------------------------------
(* Properties of the end of a slot *)

\* a candidate [t, t + d) that starts in working hours and ends after 18:00
EndsAfterHours(t, d) == t + d > replace_hm(t, WorkEndHour, 0)

\* C21: a tick before 18:00 whose candidate ends after 18:00 is returned when
\* the candidate overlaps no fetched busy interval, and every event a booking
\* creates ends at the selected start plus the duration, after 18:00 included
C21_EndMayPassWorkEnd ==
    /\ \A s \in Answered :
          LET q == last_query[s]
          IN  \A t \in Ticks(q) :
                  ( /\ EndsAfterHours(t, q.duration)
                    /\ \A b \in Fetched(q) : ~ Overlaps(t, q.duration, b) )
                  => t \in SlotSet(q)
    /\ \A s \in Sessions :
          pc[s] = "created" =>
              /\ locals[s].start_time \in SlotSet(last_query[s])
              /\ locals[s].end_time = locals[s].start_time + last_query[s].duration
              /\ fromisoformat(created_event[s].end) = locals[s].end_time

\* an event created for Monday 17:45 that ends after 18:00
C21_Witness ==
    \E s \in Sessions :
        /\ pc[s] = "created"
        /\ locals[s].start_time = At(0, 0, 17, 45)
        /\ EndsAfterHours(locals[s].start_time, last_query[s].duration)
        /\ created_event[s] \in calendar["primary"]

-----------------------------------------------------------------------------
(* Properties of the entries read from the calendar *)

\* the entries of a response that lack a start or an end
Malformed(q) == {e \in q.raw : e.start.tag = "none" \/ e.end.tag = "none"}

\* C22: when the response holds an entry without a start or an end the call
\* still returns the result of a scan, logs a warning for the dropped entry, and
\* the other entries still exclude the slots they overlap
C22_MalformedDroppedWithWarning ==
    \A s \in Called :
        LET q == last_query[s]
        IN  Malformed(q) # {} =>
                /\ ~ q.unavailable
                /\ \E k \in 1..Len(q.log) : q.log[k] = "warning"
                /\ \A e \in q.raw \ Malformed(q) : \A t \in SlotSet(q) :
                       ~ Overlaps(t, q.duration,
                                  [start |-> fromisoformat(e.start), end |-> fromisoformat(e.end)])

\* the all-day entries of a response
AllDay(q) == {e \in q.raw : e.start.tag = "date" /\ e.end.tag = "date"}

\* C23: an all-day entry is a busy interval from midnight of its start date to
\* midnight of its end date, and no slot is returned on a day it covers
C23_AllDayIsFullDayBusy ==
    \A s \in Answered :
        LET q == last_query[s]
        IN  \A e \in AllDay(q) :
                /\ [start |-> e.start.v * MinutesPerDay, end |-> e.end.v * MinutesPerDay]
                       \in q.busy
                /\ \A t \in SlotSet(q) :
                       ~ (e.start.v <= t \div MinutesPerDay /\ t \div MinutesPerDay < e.end.v)

\* a call that read the all-day entry of Wednesday and returned slots on the
\* day before and on the day after it
C23_Witness ==
    \E s \in Answered :
        LET q == last_query[s]
        IN  /\ \E e \in AllDay(q) : e.start.v = 2 /\ e.end.v = 3
            /\ \E t \in SlotSet(q) : t \div MinutesPerDay = 1
            /\ \E t \in SlotSet(q) : t \div MinutesPerDay = 3

-----------------------------------------------------------------------------
(* Further properties of the booking flow *)

\* a step in which session s had an event created
CreateStep(s) == pc[s] = "idle" /\ pc'[s] = "created"

\* C24: the event a booking creates runs from the selected slot to that slot
\* plus the duration of the query that produced the session's slot list, for the
\* interviewer of that query, and the row written for it has the same start, end
\* and interviewer
C24_BookingUsesQueryValues ==
    /\ [][\A s \in Sessions :
            CreateStep(s) =>
                LET q == last_query[s]
                    e == created_event'[s]
                IN  /\ fromisoformat(e.start) \in SlotSet(q)
                    /\ fromisoformat(e.end) = fromisoformat(e.start) + q.duration
                    /\ e.attendees = {q.email}
                    /\ e \in calendar'["primary"]]_vars
    /\ [](\A r \in interviews : \A n \in Booked :
            r.google_calendar_event_id = n =>
                /\ r.start_time = bookings[n].start
                /\ r.end_time = bookings[n].end
                /\ r.interviewer_id = bookings[n].interviewer
                /\ \E e \in calendar["primary"] :
                       /\ e.id = n
                       /\ fromisoformat(e.start) = r.start_time
                       /\ fromisoformat(e.end) = r.end_time
                       /\ e.attendees = {email_of(r.interviewer_id)})

\* a logged booking of a query for 45 or 60 minutes with the second interviewer
C24_Witness ==
    \E n \in Completed :
        /\ bookings[n].logged = "ok"
        /\ bookings[n].interviewer = 2
        /\ bookings[n].end - bookings[n].start > 30
        /\ RowsOf(n) # {}

\* C25: a call of find_available_slots changes neither the calendars nor the
\* interviews table, and no step before the external create does: a calendar
\* changes only in the step in which an event is created, and the table only
\* after an event was created
C25_QueryHasNoSideEffects ==
    /\ [][QueryStep => (calendar' = calendar /\ interviews' = interviews)]_vars
    /\ [][calendar' # calendar => \E s \in Sessions : CreateStep(s)]_vars
    /\ [][interviews' # interviews => \E s \in Sessions : pc[s] = "created"]_vars

\* a session that queried, was offered slots and closed the panel without
\* booking: the calendars and the table are as they were at the start
C25_Witness ==
    \E s \in Answered :
        /\ available_slots[s] # <<>>
        /\ ~ show_schedule[s]
        /\ interviews = {}
        /\ calendar["primary"] = {}
        /\ Cardinality(calendar[last_query[s].email]) <= 1

-----------------------------------------------------------------------------
(* Properties of the returned slots against the calendar and the clock *)

\* the intervals of the entries of a calendar that have a start and an end
EventsOn(calendarId) ==
    {[start |-> fromisoformat(e.start), end |-> fromisoformat(e.end)] :
        e \in {x \in calendar[calendarId] : x.start.tag # "none" /\ x.end.tag # "none"}}

\* a calendar changes only when an event is created, so that a session's query
\* was made on the present calendar as long as no event was created since
CalendarAsQueried == next_event_id = 1

\* C26: every returned slot [t, t + D) overlaps no event of the interviewer's
\* calendar at the time of the query, the events that start at or after the end
\* of the window included
C26_FreeOfAllCalendarEvents ==
    CalendarAsQueried =>
        \A s \in Answered :
            LET q == last_query[s]
            IN  \A t \in SlotSet(q) : \A b \in EventsOn(q.email) :
                    ~ Overlaps(t, q.duration, b)

\* C27: every returned slot starts at or after the instant of the query
C27_NoSlotInThePast ==
    \A s \in Answered :
        LET q == last_query[s]
        IN  \A t \in SlotSet(q) : t * 60 >= q.at.t * 60 + q.at.sec

\* C28: a query made after a booking of [start, end) for the same interviewer
\* has completed returns no slot that overlaps [start, end)
C28_BookedEventSeenByLaterQuery ==
    [][\A s \in Sessions :
         (QueryStep /\ last_query'[s] # last_query[s] /\ ~ last_query'[s].unavailable) =>
             LET q == last_query'[s]
             IN  \A n \in Completed :
                     email_of(bookings[n].interviewer) = q.email =>
                         \A t \in SlotSet(q) :
                             ~ Overlaps(t, q.duration,
                                        [start |-> bookings[n].start, end |-> bookings[n].end])]_vars


(* The list of scheduled interviews shown in the panel *)

\* the panel of session s opens and line 190 reads load_interviews
PanelOpens(s) == ~ show_schedule[s] /\ show_schedule'[s]

\* the bookings of session s whose external create and local log both succeeded
LoggedBy(s) ==
    {n \in Completed : bookings[n].session = s /\ bookings[n].logged = "ok"}

\* C29: after a booking whose external create and local log both succeeded, the
\* next read of load_interviews for the applicant includes the logged interview
C29_NextReadShowsNewInterview ==
    [][\A s \in Sessions :
         PanelOpens(s) =>
             \A n \in LoggedBy(s) :
                 RowsOf(n) \subseteq load_interviews_cache'[applicant_of(s)].rows]_vars


====
